---- MODULE Spec2Model ----
(***************************************************************************)
(* Roman numerals: validation, conversion and text search (src/Main.py).    *)
(*                                                                         *)
(* A Python str is modelled as a sequence of one-character strings.        *)
(* Optional[T] is modelled as a sequence of length 0 (None) or 1.          *)
(* Positions are Python's 0-based offsets: a span <<start, end>> covers    *)
(* the characters start+1 .. end of the TLA+ sequence.                     *)
(***************************************************************************)
EXTENDS Integers, Sequences, FiniteSets, TLC

VARIABLES
    pc,              \* "ready": the caller is about to call; "returned": a call has returned
    op,              \* the operation that returned
    num,             \* Optional integer argument
    roman_in,        \* the str argument (a numeral or a text)
    strict,          \* the strict flag of find_roman_numerals_in_text
    roman_num,       \* Optional str: what arabic_to_roman returned
    raised,          \* TRUE when the call raised ValueError
    back_to_arabic,  \* Optional integer: what roman_to_arabic returned
    result,          \* Optional RomanNumeralResult: what validate_roman_numeral returned
    results          \* the list find_roman_numerals_in_text returned

vars == <<pc, op, num, roman_in, strict, roman_num, raised, back_to_arabic, result, results>>

----------------------------------------------------------------------------
(* Bounds of the input sets.                                               *)

MaxRomanLen == 4     \* validate/find inputs: every string over the seven symbols up to this length
MaxTextLen == 4      \* validate/find inputs: every string over TextChars up to this length
MaxNum == 4000       \* arabic_to_roman inputs: -1 .. MaxNum

----------------------------------------------------------------------------
(* Python built-ins on str.                                                *)

None == << >>
Some(v) == <<v>>

LowerLetters == <<"a","b","c","d","e","f","g","h","i","j","k","l","m",
                  "n","o","p","q","r","s","t","u","v","w","x","y","z">>
UpperLetters == <<"A","B","C","D","E","F","G","H","I","J","K","L","M",
                  "N","O","P","Q","R","S","T","U","V","W","X","Y","Z">>
Digits == {"0","1","2","3","4","5","6","7","8","9"}

Range(f) == {f[k] : k \in DOMAIN f}

\* str.upper() on one character (ASCII)
upper_char(c) ==
    IF c \in Range(LowerLetters)
    THEN UpperLetters[CHOOSE k \in DOMAIN LowerLetters : LowerLetters[k] = c]
    ELSE c

\* str.upper()
upper(s) == [k \in 1..Len(s) |-> upper_char(s[k])]

\* the characters str.strip() removes
Whitespace == {" ", "\t", "\n"}

\* a variant of strip that drops every white-space character, inner ones too
strip_all(s) == SelectSeq(s, LAMBDA c : c \notin Whitespace)

\* str.strip()
strip(s) ==
    LET keep == {k \in 1..Len(s) : s[k] \notin Whitespace}
    IN  IF keep = {} THEN << >>
        ELSE LET lo == CHOOSE k \in keep : \A j \in keep : k <= j
                 hi == CHOOSE k \in keep : \A j \in keep : j <= k
             IN  SubSeq(s, lo, hi)

\* the regex class \w (after upper(), ASCII)
IsWord(c) == c \in Range(LowerLetters) \cup Range(UpperLetters) \cup Digits \cup {"_"}

\* Python's `sub in s` for str
Contains(s, sub) ==
    \E p \in 0..(Len(s) - Len(sub)) : SubSeq(s, p + 1, p + Len(sub)) = sub

\* Python's `c * k`
Repeat(c, k) == [j \in 1..k |-> c]

\* reversed(s)
reversed(s) == [k \in 1..Len(s) |-> s[Len(s) + 1 - k]]

----------------------------------------------------------------------------
(* class RomanNumerals: the static tables.                                 *)

ROMAN_VALUES ==
    ("M" :> 1000) @@ ("D" :> 500) @@ ("C" :> 100) @@ ("L" :> 50) @@
    ("X" :> 10) @@ ("V" :> 5) @@ ("I" :> 1)

SUBTRACTION_RULES ==
    ("I" :> {"V", "X"}) @@ ("X" :> {"L", "C"}) @@ ("C" :> {"D", "M"}) @@
    ("V" :> {}) @@ ("L" :> {}) @@ ("D" :> {}) @@ ("M" :> {})

\* a dict, iterated in insertion order: a sequence of (symbol, max_rep) items
MAX_REPETITIONS ==
    << <<"I", 3>>, <<"X", 3>>, <<"C", 3>>, <<"M", 3>>,
       <<"V", 1>>, <<"L", 1>>, <<"D", 1>> >>

INVALID_COMBINATIONS ==
    { <<"I","I","I","I">>, <<"V","V">>, <<"X","X","X","X">>, <<"L","L">>,
      <<"C","C","C","C">>, <<"D","D">>, <<"M","M","M","M","M">>,
      <<"I","L">>, <<"I","C">>, <<"I","D">>, <<"I","M">>,
      <<"X","D">>, <<"X","M">>,
      <<"V","X">>, <<"V","L">>, <<"V","C">>, <<"V","D">>, <<"V","M">>,
      <<"L","C">>, <<"L","D">>, <<"L","M">>,
      <<"D","M">>,
      <<"I","I","V">>, <<"I","I","X">>, <<"X","X","L">>, <<"X","X","C">>,
      <<"C","C","D">>, <<"C","C","M">> }

\* class RomanNumeralValidation
RomanNumeralValidation ==
    {"VALID", "INVALID_FORMAT", "INVALID_ORDER", "INVALID_REPETITION",
     "INVALID_SUBTRACTION", "EMPTY"}

\* dataclass RomanNumeralResult, with the defaults of its fields
RomanNumeralResult(numeral, value, status, position, error_details) ==
    [numeral |-> numeral, value |-> value, status |-> status,
     position |-> position, error_details |-> error_details]

----------------------------------------------------------------------------
(* The converter.                                                          *)

RECURSIVE roman_to_arabic_loop_le(_, _, _, _)
\* a variant of the loop that also subtracts a symbol equal to the one on its right
roman_to_arabic_loop_le(chars, k, total, prev_value) ==
    IF k > Len(chars) THEN total
    ELSE LET value == ROMAN_VALUES[chars[k]]
         IN  IF value <= prev_value
             THEN roman_to_arabic_loop_le(chars, k + 1, total - value, value)
             ELSE roman_to_arabic_loop_le(chars, k + 1, total + value, value)

RECURSIVE roman_to_arabic_loop(_, _, _, _)
\* the for loop of roman_to_arabic over chars (already reversed), from index k
roman_to_arabic_loop(chars, k, total, prev_value) ==
    IF k > Len(chars) THEN total
    ELSE LET value == ROMAN_VALUES[chars[k]]
         IN  IF value < prev_value
             THEN roman_to_arabic_loop(chars, k + 1, total - value, value)
             ELSE roman_to_arabic_loop(chars, k + 1, total + value, value)

roman_to_arabic(roman) == roman_to_arabic_loop(reversed(upper(roman)), 1, 0, 0)

conversions ==
    << <<1000, <<"M">> >>, <<900, <<"C","M">> >>, <<500, <<"D">> >>,
       <<400, <<"C","D">> >>, <<100, <<"C">> >>, <<90, <<"X","C">> >>,
       <<50, <<"L">> >>, <<40, <<"X","L">> >>, <<10, <<"X">> >>,
       <<9, <<"I","X">> >>, <<5, <<"V">> >>, <<4, <<"I","V">> >>,
       <<1, <<"I">> >> >>

RECURSIVE arabic_to_roman_loop(_, _, _)
\* the for/while loops of arabic_to_roman, at table entry k
arabic_to_roman_loop(n, k, acc) ==
    IF k > Len(conversions) THEN acc
    ELSE IF n >= conversions[k][1]
         THEN arabic_to_roman_loop(n - conversions[k][1], k, acc \o conversions[k][2])
         ELSE arabic_to_roman_loop(n, k + 1, acc)

\* arabic_to_roman: [raised |-> TRUE] stands for `raise ValueError`
arabic_to_roman(n) ==
    IF ~(1 <= n /\ n <= 3999)
    THEN [raised |-> TRUE, value |-> << >>]
    ELSE [raised |-> FALSE, value |-> arabic_to_roman_loop(n, 1, << >>)]

----------------------------------------------------------------------------
(* The two compiled patterns of __init__.  A pattern is modelled by the    *)
(* set of offsets at which a match that starts at offset p can end.        *)

\* a variant of the quantifier that lets one repetition too many through: c{lo,hi+1}
RepEnds_one_more(s, p, c, lo, hi) ==
    {p + k : k \in {j \in lo..(hi + 1) : \A m \in 1..j : p + m <= Len(s) /\ s[p + m] = c}}

\* c{lo,hi} from offset p
RepEnds(s, p, c, lo, hi) ==
    {p + k : k \in {j \in lo..hi : \A m \in 1..j : p + m <= Len(s) /\ s[p + m] = c}}

\* a literal from offset p
LitEnds(s, p, lit) ==
    IF p + Len(lit) <= Len(s) /\ SubSeq(s, p + 1, p + Len(lit)) = lit
    THEN {p + Len(lit)} ELSE {}

\* a variant of the group without its `four` alternative: (nine|five?one{0,3})
GroupEnds_no_four(s, p, one, five, ten) ==
    LitEnds(s, p, <<one, ten>>)
    \cup UNION {RepEnds(s, q, one, 0, 3) : q \in RepEnds(s, p, five, 0, 1)}

\* one group (nine|four|five?one{0,3}) from offset p
GroupEnds(s, p, one, five, ten) ==
    LitEnds(s, p, <<one, ten>>) \cup LitEnds(s, p, <<one, five>>)
    \cup UNION {RepEnds(s, q, one, 0, 3) : q \in RepEnds(s, p, five, 0, 1)}

\* M{0,3}(CM|CD|D?C{0,3})(XC|XL|L?X{0,3})(IX|IV|V?I{0,3}) from offset p
strict_body_ends(s, p) ==
    UNION {UNION {UNION {GroupEnds(s, q3, "I", "V", "X")
                         : q3 \in GroupEnds(s, q2, "X", "L", "C")}
                  : q2 \in GroupEnds(s, q1, "C", "D", "M")}
           : q1 \in RepEnds(s, p, "M", 0, 3)}

\* ^ without re.MULTILINE: only at the start of the string
Caret(s, p) == p = 0

\* $ without re.MULTILINE: at the end, or just before a final newline
Dollar(s, q) == q = Len(s) \/ (q = Len(s) - 1 /\ s[Len(s)] = "\n")

\* strict_pattern: the ends of its matches that start at offset p
strict_pattern_at(s, p) ==
    IF Caret(s, p) THEN {q \in strict_body_ends(s, p) : Dollar(s, q)} ELSE {}

\* roman_pattern, (?<!\w)[MDCLXVI]+(?!\w): the ends of its matches that start at p
roman_pattern_at(s, p) ==
    IF p > 0 /\ IsWord(s[p]) THEN {}
    ELSE {q \in (p + 1)..Len(s) :
            /\ \A m \in (p + 1)..q : s[m] \in {"M", "D", "C", "L", "X", "V", "I"}
            /\ (q = Len(s) \/ ~IsWord(s[q + 1]))}

\* the end a greedy match takes
SetMax(S) == CHOOSE q \in S : \A r \in S : r <= q

\* a variant of the match for a pattern without its closing $
strict_pattern_match_unanchored(s) == Caret(s, 0) /\ strict_body_ends(s, 0) # {}

\* strict_pattern.match(s)
strict_pattern_match(s) == strict_pattern_at(s, 0) # {}

RECURSIVE strict_pattern_finditer(_, _)
\* strict_pattern.finditer(s), searching on from offset pos: the spans, left to right
strict_pattern_finditer(s, pos) ==
    IF pos > Len(s) THEN << >>
    ELSE LET ends == strict_pattern_at(s, pos)
         IN  IF ends = {} THEN strict_pattern_finditer(s, pos + 1)
             ELSE LET q == SetMax(ends)
                  IN  << <<pos, q>> >> \o
                      strict_pattern_finditer(s, IF q = pos THEN pos + 1 ELSE q)

RECURSIVE roman_pattern_finditer(_, _)
\* roman_pattern.finditer(s), searching on from offset pos
roman_pattern_finditer(s, pos) ==
    IF pos > Len(s) THEN << >>
    ELSE LET ends == roman_pattern_at(s, pos)
         IN  IF ends = {} THEN roman_pattern_finditer(s, pos + 1)
             ELSE LET q == SetMax(ends)
                  IN  << <<pos, q>> >> \o roman_pattern_finditer(s, q)

----------------------------------------------------------------------------
(* validate_roman_numeral.                                                 *)

\* the items of MAX_REPETITIONS whose pattern symbol{max_rep+1,} is found in roman
RepetitionHits(roman) ==
    {k \in DOMAIN MAX_REPETITIONS :
        Contains(roman, Repeat(MAX_REPETITIONS[k][1], MAX_REPETITIONS[k][2] + 1))}

RECURSIVE pairwise_scan(_, _, _)
\* the while loop of validate_roman_numeral at offset i; prev_value None is float('inf').
\* None when the loop runs to its end, else Some(<<status, error_details>>)
pairwise_scan(roman, i, prev_value) ==
    IF ~(i < Len(roman)) THEN None
    ELSE
      LET current_char == roman[i + 1]
          current_value == ROMAN_VALUES[current_char]
          has_next == i + 1 < Len(roman)
          next_char == roman[i + 2]
          next_value == ROMAN_VALUES[next_char]
          subtractive == has_next /\ current_value < next_value
          value == IF subtractive THEN next_value - current_value ELSE current_value
          next_i == IF subtractive THEN i + 2 ELSE i + 1
      IN  IF subtractive /\ next_char \notin SUBTRACTION_RULES[current_char]
          THEN Some(<<"INVALID_SUBTRACTION", <<"bad subtraction", <<current_char, next_char>> >> >>)
          ELSE IF subtractive /\ i + 2 < Len(roman) /\ roman[i + 3] = current_char
          THEN Some(<<"INVALID_SUBTRACTION", <<"subtracted symbol repeats", <<current_char>> >> >>)
          ELSE IF subtractive /\ next_value > current_value * 10
          THEN Some(<<"INVALID_SUBTRACTION", <<"subtraction too large", <<current_char, next_char>> >> >>)
          ELSE IF prev_value # None /\ value > prev_value[1]
          THEN Some(<<"INVALID_ORDER", <<"bad order of values", << >> >> >>)
          ELSE pairwise_scan(roman, next_i, Some(value))

\* invalid_chars = [c for c in roman if c not in self.ROMAN_VALUES], as a set
InvalidChars(roman) ==
    {roman[k] : k \in {j \in 1..Len(roman) : roman[j] \notin DOMAIN ROMAN_VALUES}}

\* the members of INVALID_COMBINATIONS that occur in roman
ForbiddenHits(roman) == {invalid \in INVALID_COMBINATIONS : Contains(roman, invalid)}

\* the result for an empty string
EmptyResult(roman) ==
    RomanNumeralResult(roman, None, "EMPTY", None, Some(<<"empty string", << >> >>))

\* the result for a string with characters outside ROMAN_VALUES
InvalidCharsResult(roman) ==
    RomanNumeralResult(roman, None, "INVALID_FORMAT", None,
                       Some(<<"invalid characters", InvalidChars(roman)>>))

\* a variant of the structure result built without its error_details
StructureMismatchResult_no_details(roman) ==
    RomanNumeralResult(roman, None, "INVALID_FORMAT", None, None)

\* the result for a string strict_pattern does not match
StructureMismatchResult(roman) ==
    RomanNumeralResult(roman, None, "INVALID_FORMAT", None,
                       Some(<<"does not match the structure", << >> >>))

\* the result for a string that passed every stage
ValidResult(roman) ==
    RomanNumeralResult(roman, Some(roman_to_arabic(roman)), "VALID", None, None)

\* validate_roman_numeral(roman): the set of results the call can return.  The set
\* has more than one element only where the result depends on the iteration order
\* of the set INVALID_COMBINATIONS, which Python does not fix.
validate_roman_numeral(roman0) ==
    LET roman == upper(strip(roman0))
        forbidden == ForbiddenHits(roman)
        hits == RepetitionHits(roman)
        first_hit == CHOOSE k \in hits : \A j \in hits : k <= j
        scan == pairwise_scan(roman, 0, None)
    IN  IF roman = << >> THEN {EmptyResult(roman)}
        ELSE IF InvalidChars(roman) # {} THEN {InvalidCharsResult(roman)}
        ELSE IF ~strict_pattern_match(roman) THEN {StructureMismatchResult(roman)}
        ELSE IF forbidden # {}
        THEN {RomanNumeralResult(roman, None, "INVALID_SUBTRACTION", None,
                                 Some(<<"forbidden combination", invalid>>))
              : invalid \in forbidden}
        ELSE IF hits # {}
        THEN {RomanNumeralResult(roman, None, "INVALID_REPETITION", None,
                                 Some(<<"symbol repeats too often", MAX_REPETITIONS[first_hit]>>))}
        ELSE IF scan # None
        THEN {RomanNumeralResult(roman, None, scan[1][1], None, Some(scan[1][2]))}
        ELSE {ValidResult(roman)}

----------------------------------------------------------------------------
(* find_roman_numerals_in_text.                                            *)

RECURSIVE find_loop(_, _, _, _)
\* the for loop over matches, from match k: the set of lists it can append
find_loop(upper_text, matches, k, is_strict) ==
    IF k > Len(matches) THEN {<< >>}
    ELSE LET start == matches[k][1]
             end == matches[k][2]
             roman_n == SubSeq(upper_text, start + 1, end)
             here == IF is_strict
                     THEN {RomanNumeralResult(roman_n, Some(roman_to_arabic(roman_n)),
                                              "VALID", Some(<<start, end>>), None)}
                     ELSE {[r EXCEPT !.position = Some(<<start, end>>)]
                           : r \in validate_roman_numeral(roman_n)}
         IN  {<<r>> \o rest : r \in here, rest \in find_loop(upper_text, matches, k + 1, is_strict)}

\* find_roman_numerals_in_text(text, strict): the set of lists the call can return
find_roman_numerals_in_text(text, is_strict) ==
    LET upper_text == upper(text)
        matches == IF is_strict THEN strict_pattern_finditer(upper_text, 0)
                   ELSE roman_pattern_finditer(upper_text, 0)
    IN  find_loop(upper_text, matches, 1, is_strict)

----------------------------------------------------------------------------
(* The inputs the caller draws from.                                       *)

StringsUpTo(chars, n) == UNION {[1..k -> chars] : k \in 0..n}

\* symbols, a lower-case symbol, white space, a letter and a sign outside the alphabet
TextChars == {"I", "V", "X", "i", " ", "\n", "A", ","}

\* every string the structural grammar generates (the empty one included)
GrammarGroup(one, five, ten) ==
    {<<one, ten>>, <<one, five>>}
    \cup {f \o Repeat(one, k) : f \in {<< >>, <<five>>}, k \in 0..3}

GrammarStrings ==
    {Repeat("M", k) \o h \o t \o u :
        k \in 0..3, h \in GrammarGroup("C", "D", "M"),
        t \in GrammarGroup("X", "L", "C"), u \in GrammarGroup("I", "V", "X")}

\* "Chapter IV, section IX"
ChapterText ==
    <<"C","h","a","p","t","e","r"," ","I","V",","," ",
      "s","e","c","t","i","o","n"," ","I","X">>

StrInputs ==
    StringsUpTo(DOMAIN ROMAN_VALUES, MaxRomanLen)
    \cup StringsUpTo(TextChars, MaxTextLen)
    \cup GrammarStrings
    \cup {ChapterText}

NumInputs == (-1)..MaxNum

----------------------------------------------------------------------------
(* The caller: one call at a time on a stateless RomanNumerals object.     *)

Init ==
    /\ pc = "ready"
    /\ op = "none"
    /\ num = None
    /\ roman_in = << >>
    /\ strict = FALSE
    /\ roman_num = None
    /\ raised = FALSE
    /\ back_to_arabic = None
    /\ result = None
    /\ results = << >>

\* result = roman.validate_roman_numeral(numeral)
Validate ==
    /\ pc = "ready"
    /\ \E numeral \in StrInputs :
         /\ roman_in' = numeral
         /\ \E r \in validate_roman_numeral(numeral) : result' = Some(r)
    /\ pc' = "returned"
    /\ op' = "validate"
    /\ UNCHANGED <<num, strict, roman_num, raised, back_to_arabic, results>>

\* roman_num = roman.arabic_to_roman(i); back_to_arabic = roman.roman_to_arabic(roman_num)
Convert ==
    /\ pc = "ready"
    /\ \E i \in NumInputs :
         LET r == arabic_to_roman(i)
         IN  /\ num' = Some(i)
             /\ raised' = r.raised
             /\ roman_num' = IF r.raised THEN None ELSE Some(r.value)
             /\ back_to_arabic' = IF r.raised THEN None ELSE Some(roman_to_arabic(r.value))
    /\ pc' = "returned"
    /\ op' = "convert"
    /\ UNCHANGED <<roman_in, strict, result, results>>

\* result = roman.validate_roman_numeral(roman.arabic_to_roman(i))
ValidateConverted ==
    /\ pc = "ready"
    /\ \E i \in NumInputs :
         LET r == arabic_to_roman(i)
         IN  /\ num' = Some(i)
             /\ raised' = r.raised
             /\ roman_num' = IF r.raised THEN None ELSE Some(r.value)
             /\ roman_in' = r.value
             /\ IF r.raised THEN result' = None
                ELSE \E v \in validate_roman_numeral(r.value) : result' = Some(v)
    /\ pc' = "returned"
    /\ op' = "validate_converted"
    /\ UNCHANGED <<strict, back_to_arabic, results>>

\* results = roman.find_roman_numerals_in_text(text, strict)
Find ==
    /\ pc = "ready"
    /\ \E text \in StrInputs, is_strict \in BOOLEAN :
         /\ roman_in' = text
         /\ strict' = is_strict
         /\ results' \in find_roman_numerals_in_text(text, is_strict)
    /\ pc' = "returned"
    /\ op' = "find"
    /\ UNCHANGED <<num, roman_num, raised, back_to_arabic, result>>

\* the caller drops what was returned; the object keeps no state between calls
Return ==
    /\ pc = "returned"
    /\ pc' = "ready"
    /\ op' = "none"
    /\ num' = None
    /\ roman_in' = << >>
    /\ strict' = FALSE
    /\ roman_num' = None
    /\ raised' = FALSE
    /\ back_to_arabic' = None
    /\ result' = None
    /\ results' = << >>

Next == Validate \/ Convert \/ ValidateConverted \/ Find \/ Return

Spec == Init /\ [][Next]_vars

----------------------------------------------------------------------------
(* Properties.                                                             *)

\* the result of the validate call that returned
ValidateReturned == op \in {"validate", "validate_converted"} /\ result # None

\* every result a returned call carries
ReturnedResults ==
    (IF result = None THEN {} ELSE {result[1]}) \cup Range(results)

\* the seven symbols
Alphabet == {"I", "V", "X", "L", "C", "D", "M"}

\* C1: for every integer n in [1, 3999], roman_to_arabic(arabic_to_roman(n)) equals n.
C1_RoundTrip ==
    (op = "convert" /\ 1 <= num[1] /\ num[1] <= 3999)
        => (~raised /\ roman_num # None /\ back_to_arabic = num)

C1_Witness ==
    /\ op = "convert" /\ num = Some(3999)
    /\ roman_num = Some(<<"M","M","M","C","M","X","C","I","X">>)
    /\ back_to_arabic = Some(3999)

\* C2: for every integer n in [1, 3999], validate_roman_numeral(arabic_to_roman(n))
\* returns status VALID with value n.
C2_CanonicalIsValid ==
    (op = "validate_converted" /\ 1 <= num[1] /\ num[1] <= 3999)
        => (~raised /\ result # None /\ result[1].status = "VALID" /\ result[1].value = num)

C2_Witness ==
    /\ op = "validate_converted" /\ num = Some(1984)
    /\ roman_in = <<"M","C","M","L","X","X","X","I","V">>
    /\ result # None /\ result[1].status = "VALID" /\ result[1].value = Some(1984)

\* C3: whenever validate_roman_numeral returns VALID with value v, v lies in
\* [1, 3999] and arabic_to_roman(v) is exactly the result's numeral, which is the
\* trimmed, upper-cased input.
C3_ValidIsCanonical ==
    (ValidateReturned /\ result[1].status = "VALID")
        => /\ Len(result[1].value) = 1
           /\ 1 <= result[1].value[1] /\ result[1].value[1] <= 3999
           /\ ~arabic_to_roman(result[1].value[1]).raised
           /\ arabic_to_roman(result[1].value[1]).value = result[1].numeral
           /\ result[1].numeral = upper(strip(roman_in))

C3_Witness ==
    /\ op = "validate" /\ roman_in = <<" ", "i", "X", "\n">>
    /\ result # None /\ result[1].status = "VALID"
    /\ result[1].numeral = <<"I", "X">> /\ result[1].value = Some(9)

\* C4: find_roman_numerals_in_text("Chapter IV, section IX", strict=True) returns
\* exactly two results, "IV" with value 4 and "IX" with value 9, each with its span.
C4_ChapterScan ==
    (op = "find" /\ strict /\ roman_in = ChapterText)
        => results = << RomanNumeralResult(<<"I","V">>, Some(4), "VALID", Some(<<8, 10>>), None),
                        RomanNumeralResult(<<"I","X">>, Some(9), "VALID", Some(<<20, 22>>), None) >>

\* C5 as stated: every input with a character outside the seven symbols is
\* answered INVALID_FORMAT.
C5_ForeignCharIsFormatError ==
    (op = "validate" /\ \E k \in 1..Len(roman_in) : roman_in[k] \notin Alphabet)
        => (result # None /\ result[1].status = "INVALID_FORMAT")

\* C5, amended: every input that, once its surrounding white space is trimmed and
\* it is upper-cased, is not empty and has a character outside the seven symbols
\* is answered INVALID_FORMAT.  (A character survives the trim when it is not
\* white space, or lies between two characters that are not.)
C5_ForeignCharAfterTrimIsFormatError ==
    (op = "validate" /\
     \E k \in 1..Len(roman_in) :
        /\ upper_char(roman_in[k]) \notin Alphabet
        /\ \E i \in 1..k : roman_in[i] \notin Whitespace
        /\ \E j \in k..Len(roman_in) : roman_in[j] \notin Whitespace)
        => (result # None /\ result[1].status = "INVALID_FORMAT")

C5_Witness ==
    /\ op = "validate" /\ roman_in = <<"I", " ", "V">>
    /\ result # None /\ result[1].status = "INVALID_FORMAT"
    /\ result[1].numeral = <<"I", " ", "V">>

\* C6: a symbol repeated one more time than its repetition limit is answered
\* INVALID_REPETITION or INVALID_SUBTRACTION.
C6_OverRepetitionStatus ==
    (op = "validate" /\
     \E k \in DOMAIN MAX_REPETITIONS :
        roman_in = Repeat(MAX_REPETITIONS[k][1], MAX_REPETITIONS[k][2] + 1))
        => (result # None /\ result[1].status \in {"INVALID_REPETITION", "INVALID_SUBTRACTION"})

\* C7: a two-symbol string ab with value(a) < value(b) and b outside a's
\* subtraction rule is answered INVALID_SUBTRACTION.
C7_IllegalPairStatus ==
    (op = "validate" /\ Len(roman_in) = 2
     /\ roman_in[1] \in Alphabet /\ roman_in[2] \in Alphabet
     /\ ROMAN_VALUES[roman_in[1]] < ROMAN_VALUES[roman_in[2]]
     /\ roman_in[2] \notin SUBTRACTION_RULES[roman_in[1]])
        => (result # None /\ result[1].status = "INVALID_SUBTRACTION")

\* C8: every result of validate_roman_numeral and of find_roman_numerals_in_text
\* (either mode) carries one of the six statuses, an integer value iff the status
\* is VALID, and an error detail iff the status is not VALID.
C8_ValueXorDetail ==
    \A r \in ReturnedResults :
        /\ r.status \in RomanNumeralValidation
        /\ Len(r.value) = (IF r.status = "VALID" THEN 1 ELSE 0)
        /\ (Len(r.value) = 1 => r.value[1] \in Int)
        /\ Len(r.error_details) = (IF r.status = "VALID" THEN 0 ELSE 1)

C8_Witness ==
    /\ op = "find" /\ ~strict /\ roman_in = <<"I", ",", "V", "V">>
    /\ Len(results) = 2
    /\ results[1].status = "VALID" /\ results[1].value = Some(1)
    /\ results[2].status = "INVALID_FORMAT" /\ results[2].value = None
    /\ results[2].error_details # None

\* C9: every result of find_roman_numerals_in_text(text, strict=True) has status
\* VALID, a non-empty numeral, and the value validate_roman_numeral returns, with
\* status VALID, for that numeral.
C9_StrictAgreesWithValidate ==
    (op = "find" /\ strict)
        => \A r \in Range(results) :
              /\ r.status = "VALID"
              /\ r.numeral # << >>
              /\ \A v \in validate_roman_numeral(r.numeral) :
                    v.status = "VALID" /\ v.value = r.value

\* C10: every non-empty string over the seven symbols that strict_pattern matches
\* in full passes the forbidden-combination filter, the repetition limiter and the
\* pairwise scan; so validate_roman_numeral only ever answers VALID, EMPTY or
\* INVALID_FORMAT.
C10_LaterStagesNeverReject ==
    /\ \A r \in ReturnedResults : r.status \in {"VALID", "EMPTY", "INVALID_FORMAT"}
    /\ op = "validate" =>
         LET roman == upper(strip(roman_in))
         IN  (roman # << >> /\ InvalidChars(roman) = {} /\ strict_pattern_match(roman))
                => /\ ForbiddenHits(roman) = {}
                   /\ RepetitionHits(roman) = {}
                   /\ pairwise_scan(roman, 0, None) = None

C10_Witness ==
    /\ op = "validate"
    /\ roman_in = <<"M","M","M","D","C","C","C","L","X","X","X","V","I","I","I">>
    /\ strict_pattern_match(roman_in)
    /\ result # None /\ result[1].status = "VALID" /\ result[1].value = Some(3888)

====
